---- MODULE Spec2Model ----
(***************************************************************************)
(* Model of the item orchestrator (api/src/services/items.ts) and of the   *)
(* Oracle 12 JSON path compiler                                            *)
(* (api/src/database/helpers/json/dialects/oracle_12.ts).                  *)
(***************************************************************************)
EXTENDS Integers, Sequences, FiniteSets, TLC

\* ------------------------------------------------------------------------
\* Bounds
\* ------------------------------------------------------------------------
MaxKey == 1
MaxBatch == 2
MaxNodes == 2
MaxCounter == 24
MaxCallers == 2

\* ------------------------------------------------------------------------
\* Values
\* ------------------------------------------------------------------------
\* PrimaryKey values; 0 is the falsy number.
Keys == 0..MaxKey
\* Values of the one data column ("title") of the collection.
Titles == {"a", "b"}
NoRow == "none"
\* Names the schema may give to the primary-key field.
PkFields == {"id", "uuid"}

NullAcc == [user |-> "null", admin |-> "undefined"]
Accountabilities ==
    {NullAcc} \cup {[user |-> "u", admin |-> a] : a \in {"true", "false", "undefined"}}

SeqsUpTo(S, n) == UNION {[1..m -> S] : m \in 0..n}

\* PrimaryKey | PrimaryKey[] : a single value is a one-element list with isArray FALSE.
\* An absent argument (undefined) is the empty list with isArray FALSE.
SingleKey(k) == [isArray |-> FALSE, items |-> <<k>>]
KeyArray(ks) == [isArray |-> TRUE, items |-> ks]
Undefined == [isArray |-> FALSE, items |-> <<>>]

\* Partial<Item>: pk is <<>> when the payload carries no primary-key value.
Payload(pk, t) == [pk |-> pk, title |-> t]
SingleData(p) == [isArray |-> FALSE, items |-> <<p>>]
DataArray(ps) == [isArray |-> TRUE, items |-> ps]

\* JavaScript truthiness of a PrimaryKey | PrimaryKey[] | undefined value:
\* arrays are truthy, undefined and the number 0 are falsy.
Truthy(v) == v.isArray \/ (v.items # <<>> /\ v.items[1] # 0)

ArrayIsArray(v) == v.isArray

\* Array.isArray(x) ? x : [x]
AsArray(v) == v.items

EmptyRows == [k \in Keys |-> NoRow]
Exists(rs, k) == k \in Keys /\ rs[k] # NoRow
ExistingKeys(rs) == {k \in Keys : rs[k] # NoRow}

Ok(v) == [ok |-> TRUE, error |-> "", value |-> v]
Err(e) == [ok |-> FALSE, error |-> e, value |-> Undefined]
NoResult == [ok |-> FALSE, error |-> "pending", value |-> Undefined]

Event(e, i) == [ev |-> e, item |-> i]

ClosedTrx == [open |-> FALSE, rows |-> EmptyRows, related |-> {}, activity |-> <<>>]

\* Query filter: field name -> the set of values the field must be in.
NoFilter == [f \in {} |-> {}]
NoLimit == <<>>
NoQuery == [filter |-> NoFilter, limit |-> NoLimit]
NothingReturned == [kind |-> "none", items |-> <<>>]
NoRead ==
    [op |-> "none", acc |-> NullAcc, key |-> Undefined, query |-> NoQuery, gate |-> 0,
     returned |-> NothingReturned]

EmptyQuery == [with |-> <<>>, select |-> <<>>, leftJoin |-> <<>>]
NoCompilation ==
    [pc |-> "idle", nodes |-> <<>>, counter |-> 0, dbQuery |-> EmptyQuery,
     matched |-> <<>>, row |-> <<>>]

\* Concurrent callers of upsertSingleton.
Callers == 1..MaxCallers
NoUpserts == [c \in Callers |-> [pc |-> "idle", title |-> "a", record |-> <<>>]]

NoCall ==
    [op |-> "none", via |-> "direct", acc |-> NullAcc, data |-> DataArray(<<>>),
     key |-> Undefined, i |-> 0, keys |-> <<>>, payload |-> Payload(<<>>, "a"),
     target |-> <<>>, record |-> <<>>, seen |-> EmptyRows]

VARIABLES
    primaryKeyField,  \* schemaInspector.primary(collection)
    rows,             \* committed rows of the collection: key -> title
    related,          \* committed related rows written by the payload transformer
    activity,         \* committed directus_activity
    trx,              \* the open transaction's uncommitted view
    call,             \* the call in flight: arguments and locals
    pc,               \* its position
    trace,            \* gate calls and statements issued by the call in flight
    result,           \* what the last call returned or threw
    before,           \* committed state when the call in flight began
    inserted,         \* per key, committed inserts made with non-null accountability
    read,             \* the read call made and what it returned
    comp,             \* the JSON helper: its nodes, the alias counter, the compiled query
    upsert            \* per concurrent caller of upsertSingleton: position and locals

vars == <<primaryKeyField, rows, related, activity, trx, call, pc, trace, result,
          before, inserted, read, comp, upsert>>

Committed == [rows |-> rows, related |-> related, activity |-> activity]

\* ------------------------------------------------------------------------
\* Storage transaction primitive: knex.transaction(cb)
\* ------------------------------------------------------------------------
OpenTrx == [open |-> TRUE, rows |-> rows, related |-> related, activity |-> activity]

\* An exception: the open transaction (if any) rolls back and the error
\* propagates to the caller unchanged.
Throw(e, tr) ==
    /\ pc' = "done"
    /\ result' = Err(e)
    /\ trx' = ClosedTrx
    /\ trace' = tr
    /\ UNCHANGED <<primaryKeyField, rows, related, activity, call, before, inserted, read, comp, upsert>>

\* The callback returned: commit, then the method returns v.
Commit(t, v, tr) ==
    /\ pc' = "done"
    /\ result' = Ok(v)
    /\ rows' = t.rows
    /\ related' = t.related
    /\ activity' = t.activity
    /\ trx' = ClosedTrx
    /\ trace' = tr
    /\ inserted' = [k \in Keys |->
            inserted[k] + IF call.acc # NullAcc /\ t.rows[k] # NoRow /\ rows[k] = NoRow
                          THEN 1 ELSE 0]
    /\ UNCHANGED <<primaryKeyField, call, before, read, comp, upsert>>

\* A step inside the call: new uncommitted view, locals, position and trace.
Step(t, c, p, tr) ==
    /\ trx' = t
    /\ call' = c
    /\ pc' = p
    /\ trace' = tr
    /\ UNCHANGED <<primaryKeyField, rows, related, activity, result, before, inserted, read, comp, upsert>>

\* A new call enters a method.
Enter(c, t, p) ==
    /\ pc = "idle"
    /\ call' = c
    /\ trx' = t
    /\ pc' = p
    /\ trace' = <<>>
    /\ result' = NoResult
    /\ before' = Committed
    /\ UNCHANGED <<primaryKeyField, rows, related, activity, inserted, read, comp, upsert>>

\* ------------------------------------------------------------------------
\* Collaborators
\* ------------------------------------------------------------------------
\* PayloadService.processM2O / processO2M: the payloads carry a nested
\* many-to-one object and one-to-many children, which the transformer writes
\* as related rows through the handle it was constructed with.
ChildWrite(t, kind) == [t EXCEPT !.related = @ \cup {kind}]

\* The connection an AuthorizationService instance reads through: create hands
\* it the transaction (knex: trx), update and delete construct it without a
\* handle, which leaves it on the global connection.
AuthorizationHandle(op) == IF op = "create" THEN "trx" ELSE "global"

\* The rows a gate call reads: the transaction's uncommitted view through the
\* transaction handle, the committed rows through the global connection.
GateView(op, t) == IF AuthorizationHandle(op) = "trx" /\ t.open THEN t.rows ELSE rows

ActivityRecords(action, acc, ks) ==
    [n \in 1..Len(ks) |-> [action |-> action, action_by |-> acc.user, item |-> ks[n]]]

\* The keys the storage assigns to n inserted rows: the smallest unused ones.
RECURSIVE FreshKeys(_, _)
FreshKeys(used, n) ==
    IF n = 0 \/ Keys \ used = {} THEN <<>>
    ELSE LET k == CHOOSE x \in Keys \ used : \A y \in Keys \ used : x <= y
         IN <<k>> \o FreshKeys(used \cup {k}, n - 1)

\* INSERT of the payloads: row ks[n] takes payload n's column value.
InsertRows(rs, ps, ks) ==
    [k \in Keys |->
        IF \E n \in 1..Len(ks) : ks[n] = k
        THEN ps[CHOOSE n \in 1..Len(ks) : ks[n] = k].title
        ELSE rs[k]]

\* UPDATE ... WHERE pk IN ks
UpdateRows(rs, p, ks) ==
    [k \in Keys |-> IF Exists(rs, k) /\ (\E n \in 1..Len(ks) : ks[n] = k) THEN p.title ELSE rs[k]]

\* DELETE ... WHERE pk IN ks
DeleteRows(rs, ks) ==
    [k \in Keys |-> IF \E n \in 1..Len(ks) : ks[n] = k THEN NoRow ELSE rs[k]]

\* ------------------------------------------------------------------------
\* ItemsService.create
\* ------------------------------------------------------------------------
CreateGuard(acc) == acc # NullAcc /\ acc.admin # "true"

CreateEnter(data, acc, via) ==
    Enter([NoCall EXCEPT !.op = "create", !.via = via, !.acc = acc, !.data = data],
          OpenTrx, "create_m2o")

Create ==
    /\ pc = "idle"
    /\ \E acc \in Accountabilities, t \in Titles, n \in 0..MaxBatch, single \in BOOLEAN :
           /\ single => n = 1
           /\ CreateEnter([isArray |-> ~single, items |-> [m \in 1..n |-> Payload(<<>>, t)]],
                          acc, "direct")

\* Variant: the payload transformer is constructed without the transaction
\* handle, so its write goes through the global connection.
CreateM2OGlobalConnection ==
    /\ pc = "create_m2o"
    /\ \/ /\ related' = related \cup {"m2o"}
          /\ pc' = "create_gate"
          /\ trace' = Append(trace, Event("child", 0))
          /\ UNCHANGED <<primaryKeyField, rows, activity, trx, call, result, before, inserted, read, comp, upsert>>
       \/ Throw("StorageError", trace)

CreateM2O ==
    /\ pc = "create_m2o"
    /\ \/ Step(ChildWrite(trx, "m2o"), call, "create_gate", Append(trace, Event("child", 0)))
       \/ Throw("StorageError", trace)

CreateGate ==
    /\ pc = "create_gate"
    /\ IF CreateGuard(call.acc)
       THEN \/ Step(trx, [call EXCEPT !.seen = GateView("create", trx)], "create_insert",
                    Append(trace, Event("gate", 0)))
            \/ Throw("Forbidden", Append(trace, Event("reject", 0)))
       ELSE Step(trx, call, "create_insert", trace)

\* Variant: the activity records are guarded like the authorization gate.
CreateActivityUnlessAdmin(t, acc, primaryKeys) ==
    IF acc # NullAcc /\ acc.admin # "true"
    THEN [t EXCEPT !.activity = @ \o ActivityRecords("create", acc, primaryKeys)]
    ELSE t

\* if (this.accountability) insert one CREATE record per returned key
CreateActivity(t, acc, primaryKeys) ==
    IF acc # NullAcc
    THEN [t EXCEPT !.activity = @ \o ActivityRecords("create", acc, primaryKeys)]
    ELSE t

CreateInsert ==
    /\ pc = "create_insert"
    /\ LET payloads == call.data.items
           primaryKeys == FreshKeys(ExistingKeys(trx.rows), Len(payloads))
           tr == Append(trace, Event("stmt", 0))
           t1 == [trx EXCEPT !.rows = InsertRows(@, payloads, primaryKeys)]
           t2 == CreateActivity(t1, call.acc, primaryKeys)
       IN \/ /\ Len(primaryKeys) = Len(payloads)
             /\ Step(t2, [call EXCEPT !.keys = primaryKeys], "create_o2m", tr)
          \/ Throw("StorageError", tr)
          \/ /\ call.acc # NullAcc
             /\ Len(primaryKeys) = Len(payloads)
             /\ Throw("StorageError", Append(tr, Event("activity", 0)))

CreateReturn(data, savedPrimaryKeys) ==
    IF ArrayIsArray(data) THEN KeyArray(savedPrimaryKeys)
    ELSE IF savedPrimaryKeys = <<>> THEN Undefined ELSE SingleKey(savedPrimaryKeys[1])

CreateO2M ==
    /\ pc = "create_o2m"
    /\ LET v == CreateReturn(call.data, call.keys)
       IN \/ Commit(ChildWrite(trx, "o2m"), v, Append(trace, Event("child", 0)))
          \/ Throw("StorageError", trace)

\* ------------------------------------------------------------------------
\* ItemsService.delete
\* ------------------------------------------------------------------------
DeleteGuard(acc) == acc # NullAcc /\ acc.admin # "false"

KeyArgs == {SingleKey(k) : k \in Keys} \cup {KeyArray(ks) : ks \in SeqsUpTo(Keys, MaxBatch)}

Delete ==
    /\ pc = "idle"
    /\ \E acc \in Accountabilities, key \in KeyArgs :
           Enter([NoCall EXCEPT !.op = "delete", !.acc = acc, !.key = key, !.keys = AsArray(key)],
                 ClosedTrx, "delete_gate")

DeleteGate ==
    /\ pc = "delete_gate"
    /\ IF DeleteGuard(call.acc)
       THEN \/ Step(trx, [call EXCEPT !.seen = GateView("delete", trx)], "delete_stmt",
                    Append(trace, Event("gate", 0)))
            \/ Throw("Forbidden", Append(trace, Event("reject", 0)))
       ELSE Step(trx, call, "delete_stmt", trace)

\* if (this.accountability) insert one DELETE record per requested key
DeleteActivity(t, acc, keys) ==
    IF acc # NullAcc
    THEN [t EXCEPT !.activity = @ \o ActivityRecords("delete", acc, keys)]
    ELSE t

DeleteStmt ==
    /\ pc = "delete_stmt"
    /\ LET tr == Append(trace, Event("stmt", 0))
           t1 == [OpenTrx EXCEPT !.rows = DeleteRows(@, call.keys)]
           t2 == DeleteActivity(t1, call.acc, call.keys)
       IN \/ Commit(t2, call.key, tr)
          \/ Throw("StorageError", tr)
          \/ /\ call.acc # NullAcc
             /\ Throw("StorageError", Append(tr, Event("activity", 0)))

\* ------------------------------------------------------------------------
\* ItemsService.update
\* ------------------------------------------------------------------------
UpdateGuard(acc) == acc # NullAcc /\ acc.admin # "true"

\* if (data && key): one payload applied to one or more keys; otherwise the
\* batch branch opens its transaction.
UpdateEnter(data, key, acc, via, record) ==
    LET c == [NoCall EXCEPT !.op = "update", !.via = via, !.acc = acc, !.data = data,
                            !.key = key, !.record = record]
    IN IF Truthy(key)
       THEN Enter([c EXCEPT !.payload = data.items[1], !.target = AsArray(key)],
                  ClosedTrx, "update_gate")
       ELSE Enter([c EXCEPT !.i = 1], OpenTrx, "batch_loop")

PkOptions == {<<>>} \cup {<<k>> : k \in Keys}

Update ==
    /\ pc = "idle"
    /\ \E acc \in Accountabilities, t \in Titles :
           \/ \E key \in KeyArgs :
                 UpdateEnter(SingleData(Payload(<<>>, t)), key, acc, "direct", <<>>)
           \/ \E pks \in SeqsUpTo(PkOptions, MaxBatch) :
                 UpdateEnter(DataArray([n \in 1..Len(pks) |-> Payload(pks[n], t)]), Undefined,
                             acc, "direct", <<>>)

UpdateGate ==
    /\ pc = "update_gate"
    /\ IF UpdateGuard(call.acc)
       THEN \/ Step(trx, [call EXCEPT !.seen = GateView("update", trx)], "update_stmt",
                    Append(trace, Event("gate", call.i)))
            \/ Throw("Forbidden", Append(trace, Event("reject", call.i)))
       ELSE Step(trx, call, "update_stmt", trace)

UpdateStmt ==
    /\ pc = "update_stmt"
    /\ LET t0 == IF trx.open THEN trx ELSE OpenTrx
           t1 == ChildWrite(t0, "m2o")
           tr1 == Append(trace, Event("child", call.i))
           tr2 == Append(tr1, Event("stmt", call.i))
           t2 == [t1 EXCEPT !.rows = UpdateRows(@, call.payload, call.target)]
       IN \/ Step(t2, call, "update_o2m", tr2)
          \/ Throw("StorageError", trace)
          \/ Throw("StorageError", tr2)

UpdateO2M ==
    /\ pc = "update_o2m"
    /\ LET t1 == ChildWrite(trx, "o2m")
           tr1 == Append(trace, Event("child", call.i))
       IN \/ IF call.i = 0
             THEN Commit(t1, call.key, tr1)
             ELSE Step(t1, [call EXCEPT !.i = @ + 1], "batch_loop", tr1)
          \/ Throw("StorageError", trace)

\* Variant: an element without a primary-key value is skipped.
UpdateBatchLoopSkipsMissingKey ==
    /\ pc = "batch_loop"
    /\ IF ~ArrayIsArray(call.data)
       THEN Throw("TypeError", trace)
       ELSE IF call.i > Len(call.data.items)
       THEN Commit(trx, KeyArray(call.keys), trace)
       ELSE LET payload == call.data.items[call.i]
                key == [isArray |-> FALSE, items |-> payload.pk]
            IN IF ~Truthy(key)
               THEN Step(trx, [call EXCEPT !.i = @ + 1], "batch_loop", trace)
               ELSE Step(trx,
                         [call EXCEPT !.keys = Append(@, key.items[1]), !.payload = payload,
                                      !.target = AsArray(key)],
                         "update_gate", trace)

UpdateBatchLoop ==
    /\ pc = "batch_loop"
    /\ IF ~ArrayIsArray(call.data)
       THEN Throw("TypeError", trace)
       ELSE IF call.i > Len(call.data.items)
       THEN Commit(trx, KeyArray(call.keys), trace)
       ELSE LET payload == call.data.items[call.i]
                key == [isArray |-> FALSE, items |-> payload.pk]
            IN IF ~Truthy(key)
               THEN Throw("InvalidPayload", trace)
               ELSE Step(trx,
                         [call EXCEPT !.keys = Append(@, key.items[1]), !.payload = payload,
                                      !.target = AsArray(key)],
                         "update_gate", trace)

\* ------------------------------------------------------------------------
\* ItemsService.upsertSingleton
\* ------------------------------------------------------------------------
\* record.id of the row { [primaryKeyField]: k } the probe returned
RecordId(pkField, k) == IF pkField = "id" THEN SingleKey(k) ELSE Undefined

UpsertSingleton ==
    /\ pc = "idle"
    /\ \E acc \in Accountabilities, t \in Titles :
           LET data == SingleData(Payload(<<>>, t))
           IN IF ExistingKeys(rows) # {}
              THEN \E k \in ExistingKeys(rows) :
                       UpdateEnter(data, RecordId(primaryKeyField, k), acc, "upsert", <<k>>)
              ELSE CreateEnter(data, acc, "upsert")

\* ------------------------------------------------------------------------
\* Specification of the item orchestrator: one call against a storage state
\* that earlier calls left behind.
\* ------------------------------------------------------------------------
\* The rows earlier calls left: any subset of the keys, holding the first title.
InitialRows == [Keys -> {"a", NoRow}]
\* The activity log earlier calls left: one committed create of key 0.
InitialLog == <<[action |-> "create", action_by |-> "u", item |-> 0]>>

Init ==
    /\ primaryKeyField \in PkFields
    /\ rows \in InitialRows
    /\ related = {}
    /\ activity = InitialLog
    /\ trx = ClosedTrx
    /\ call = NoCall
    /\ pc = "idle"
    /\ trace = <<>>
    /\ result = NoResult
    /\ before = Committed
    /\ inserted = [k \in Keys |-> IF k = 0 THEN 1 ELSE 0]
    /\ read = NoRead
    /\ comp = NoCompilation
    /\ upsert = NoUpserts

Next ==
    \/ Create
    \/ CreateM2O
    \/ CreateGate
    \/ CreateInsert
    \/ CreateO2M
    \/ Update
    \/ UpdateGate
    \/ UpdateStmt
    \/ UpdateO2M
    \/ UpdateBatchLoop
    \/ Delete
    \/ DeleteGate
    \/ DeleteStmt
    \/ UpsertSingleton

Spec == Init /\ [][Next]_vars

\* ------------------------------------------------------------------------
\* Read pipeline: getASTFromQuery, AuthorizationService.processAST, runAST,
\* PayloadService.processValues('read')
\* ------------------------------------------------------------------------
\* An Item: column name -> value (a one-element list; <<>> is null).
Item(pkField, k, t) == [c \in {pkField, "title"} |-> IF c = "title" THEN <<t>> ELSE <<k>>]

Satisfies(item, filter) == \A f \in DOMAIN filter : item[f][1] \in filter[f]

GetASTFromQuery(query, acc, operation) ==
    [filter |-> query.filter, limit |-> query.limit, operation |-> operation,
     restricted |-> FALSE]

\* The gate rewrites the AST so that it yields only the rows the role may read.
ProcessAST(ast, operation) == [ast EXCEPT !.restricted = TRUE, !.operation = operation]

\* The role's row permission: it may read the rows titled "a".
Permitted(item) == item["title"] = <<"a">>

RECURSIVE Ascending(_)
Ascending(S) ==
    IF S = {} THEN <<>>
    ELSE LET k == CHOOSE x \in S : \A y \in S : x <= y IN <<k>> \o Ascending(S \ {k})

Take(sq, limit) ==
    IF limit = NoLimit \/ Len(sq) <= limit[1] THEN sq ELSE SubSeq(sq, 1, limit[1])

\* The rows the AST selects, in storage order, cut at its limit.
RunAST(ast, pkField, rs) ==
    LET match == {k \in ExistingKeys(rs) :
                    /\ Satisfies(Item(pkField, k, rs[k]), ast.filter)
                    /\ ast.restricted => Permitted(Item(pkField, k, rs[k]))}
        ks == Take(Ascending(match), ast.limit)
    IN [n \in 1..Len(ks) |-> Item(pkField, ks[n], rs[ks[n]])]

\* The columns of the collection hold plain values: nothing to transform.
ProcessValuesRead(records) == records

\* ------------------------------------------------------------------------
\* ItemsService.readByQuery
\* ------------------------------------------------------------------------
ReadByQueryGuard(acc) == acc # NullAcc /\ acc.admin = "false"

ReadByQueryGate(acc) == IF ReadByQueryGuard(acc) THEN 1 ELSE 0

ReadByQueryRecords(query, acc, pkField, rs) ==
    LET ast0 == GetASTFromQuery(query, acc, "read")
        ast == IF ReadByQueryGuard(acc) THEN ProcessAST(ast0, "read") ELSE ast0
    IN ProcessValuesRead(RunAST(ast, pkField, rs))

Filters(pkField) ==
    {[f \in D |-> IF f = "title" THEN {"a"} ELSE {0}] : D \in SUBSET {pkField, "title"}}

ReadByQuery ==
    /\ read = NoRead
    /\ \E acc \in Accountabilities, filter \in Filters(primaryKeyField),
          limit \in {NoLimit, <<1>>} :
          LET query == [filter |-> filter, limit |-> limit]
          IN read' = [op |-> "readByQuery", acc |-> acc, key |-> Undefined, query |-> query,
                      gate |-> ReadByQueryGate(acc),
                      returned |-> [kind |-> "array",
                                    items |-> ReadByQueryRecords(query, acc, primaryKeyField, rows)]]
    /\ UNCHANGED <<primaryKeyField, rows, related, activity, trx, call, pc, trace, result,
                   before, inserted, comp, upsert>>

\* ------------------------------------------------------------------------
\* ItemsService.readByKey
\* ------------------------------------------------------------------------
ReadByKeyGuard(acc) == acc # NullAcc /\ acc.admin # "true"

ReadByKeyGate(acc) == IF ReadByKeyGuard(acc) THEN 1 ELSE 0

ToSet(sq) == {sq[n] : n \in 1..Len(sq)}

\* Variant: the caller's filter is spread after the primary-key constraint.
QueryWithFilterCallerLast(query, pkField, keys) ==
    [query EXCEPT !.filter =
        [f \in DOMAIN query.filter \cup {pkField} |->
            IF f \in DOMAIN query.filter THEN query.filter[f] ELSE ToSet(keys)]]

\* { ...query, filter: { ...(query.filter || {}), [primaryKeyField]: { _in: keys } } }
QueryWithFilter(query, pkField, keys) ==
    [query EXCEPT !.filter =
        [f \in DOMAIN query.filter \cup {pkField} |->
            IF f = pkField THEN ToSet(keys) ELSE query.filter[f]]]

ReadByKeyRecords(key, query, operation, acc, pkField, rs) ==
    LET keys == AsArray(key)
        ast0 == GetASTFromQuery(QueryWithFilter(query, pkField, keys), acc, operation)
        ast == IF ReadByKeyGuard(acc) THEN ProcessAST(ast0, operation) ELSE ast0
    IN ProcessValuesRead(RunAST(ast, pkField, rs))

\* Array.isArray(key) ? processedRecords : processedRecords[0]
ReadByKeyReturn(key, processedRecords) ==
    IF ArrayIsArray(key) THEN [kind |-> "array", items |-> processedRecords]
    ELSE IF processedRecords = <<>> THEN [kind |-> "undefined", items |-> <<>>]
    ELSE [kind |-> "item", items |-> <<processedRecords[1]>>]

ReadByKey ==
    /\ read = NoRead
    /\ \E acc \in Accountabilities, key \in KeyArgs, filter \in Filters(primaryKeyField) :
          LET query == [filter |-> filter, limit |-> NoLimit]
          IN read' = [op |-> "readByKey", acc |-> acc, key |-> key, query |-> query,
                      gate |-> ReadByKeyGate(acc),
                      returned |-> ReadByKeyReturn(key,
                          ReadByKeyRecords(key, query, "read", acc, primaryKeyField, rows))]
    /\ UNCHANGED <<primaryKeyField, rows, related, activity, trx, call, pc, trace, result,
                   before, inserted, comp, upsert>>

\* ------------------------------------------------------------------------
\* ItemsService.readSingleton
\* ------------------------------------------------------------------------
\* schemaInspector.columnInfo(collection): each column with its declared default
ColumnInfo(pkField) ==
    {[name |-> pkField, default |-> <<>>], [name |-> "title", default |-> <<"untitled">>]}

GetDefaultValue(column) == column.default

Defaults(pkField) ==
    [c \in {column.name : column \in ColumnInfo(pkField)} |->
        GetDefaultValue(CHOOSE column \in ColumnInfo(pkField) : column.name = c)]

\* Variant: the first record is returned as it is, found or not.
ReadSingletonReturnFirst(records, pkField) ==
    IF records = <<>> THEN [kind |-> "undefined", items |-> <<>>]
    ELSE [kind |-> "item", items |-> <<records[1]>>]

\* record = records[0]; if (!record) return defaults; return record
ReadSingletonReturn(records, pkField) ==
    IF records = <<>> THEN [kind |-> "item", items |-> <<Defaults(pkField)>>]
    ELSE [kind |-> "item", items |-> <<records[1]>>]

ReadSingleton ==
    /\ read = NoRead
    /\ \E acc \in Accountabilities, filter \in Filters(primaryKeyField),
          limit \in {NoLimit, <<1>>} :
          LET query == [filter |-> filter, limit |-> <<1>>]
          IN read' = [op |-> "readSingleton", acc |-> acc, key |-> Undefined,
                      query |-> [filter |-> filter, limit |-> limit],
                      gate |-> ReadByQueryGate(acc),
                      returned |-> ReadSingletonReturn(
                          ReadByQueryRecords(query, acc, primaryKeyField, rows), primaryKeyField)]
    /\ UNCHANGED <<primaryKeyField, rows, related, activity, trx, call, pc, trace, result,
                   before, inserted, comp, upsert>>

\* ------------------------------------------------------------------------
\* Specification of the read operations: one read of any stored rows
\* ------------------------------------------------------------------------
ReadInit ==
    /\ primaryKeyField \in PkFields
    /\ rows \in [Keys -> Titles \cup {NoRow}]
    /\ related = {}
    /\ activity = <<>>
    /\ trx = ClosedTrx
    /\ call = NoCall
    /\ pc = "idle"
    /\ trace = <<>>
    /\ result = NoResult
    /\ before = Committed
    /\ inserted = [k \in Keys |-> 0]
    /\ read = NoRead
    /\ comp = NoCompilation
    /\ upsert = NoUpserts

ReadNext ==
    \/ ReadByQuery
    \/ ReadByKey
    \/ ReadSingleton

ReadSpec == ReadInit /\ [][ReadNext]_vars

\* ------------------------------------------------------------------------
\* Strings of the JSON helper: lists of one-character strings
\* ------------------------------------------------------------------------
\* String.prototype.indexOf: 0-based position of the first occurrence, or -1
IndexOf(str, sub) ==
    LET at == {i \in 0..(Len(str) - Len(sub)) : SubSeq(str, i + 1, i + Len(sub)) = sub}
    IN IF at = {} THEN -1 ELSE CHOOSE i \in at : \A j \in at : i <= j

\* String.prototype.split with a non-empty separator
RECURSIVE Split(_, _)
Split(str, sep) ==
    LET i == IndexOf(str, sep)
    IN IF i = -1 THEN <<str>>
       ELSE <<SubSeq(str, 1, i)>> \o Split(SubSeq(str, i + Len(sep) + 1, Len(str)), sep)

StartsWith(str, pre) == Len(str) >= Len(pre) /\ SubSeq(str, 1, Len(pre)) = pre

RECURSIVE Flatten(_)
Flatten(lists) == IF lists = <<>> THEN <<>> ELSE Head(lists) \o Flatten(Tail(lists))

ArrayWildcard == <<"[", "*", "]">>
ObjectWildcard == <<".", "*">>
RootMarker == <<"$">>

\* ------------------------------------------------------------------------
\* generateCapitalAlias: a counter-backed generator of capital-letter names
\* ------------------------------------------------------------------------
Alphabet ==
    <<"A", "B", "C", "D", "E", "F", "G", "H", "I", "J", "K", "L", "M",
      "N", "O", "P", "Q", "R", "S", "T", "U", "V", "W", "X", "Y", "Z">>

RECURSIVE GenerateCapitalAlias(_)
GenerateCapitalAlias(n) ==
    IF n < Len(Alphabet) THEN <<Alphabet[n + 1]>>
    ELSE GenerateCapitalAlias((n \div Len(Alphabet)) - 1) \o <<Alphabet[(n % Len(Alphabet)) + 1]>>

\* ------------------------------------------------------------------------
\* JsonHelperOracle_12
\* ------------------------------------------------------------------------
\* Object.keys(query).length
ObjectKeysLength(query) ==
    (IF query.filter # <<>> THEN 1 ELSE 0) + (IF query.limit # <<>> THEN 1 ELSE 0)

IsSelectQuery(node) ==
    /\ IndexOf(node.jsonPath, ArrayWildcard) = -1
    /\ IndexOf(node.jsonPath, ObjectWildcard) = -1
    /\ ObjectKeysLength(node.query) = 0

IsJoinQuery(node) ==
    \/ IndexOf(node.jsonPath, ArrayWildcard) > 0
    \/ IndexOf(node.jsonPath, ObjectWildcard) > 0
    \/ ObjectKeysLength(node.query) > 0

SelectQueries(nodes) == SelectSeq(nodes, IsSelectQuery)
JoinQueries(nodes) == SelectSeq(nodes, IsJoinQuery)

GetFilterType(operator) ==
    IF operator \in {"_eq", "_neq", "_ieq", "_nieq", "_contains", "_ncontains", "_icontains",
                     "_nicontains", "_starts_with", "_nstarts_with", "_istarts_with",
                     "_nistarts_with", "_ends_with", "_nends_with", "_iends_with",
                     "_niends_with", "_in", "_nin"}
    THEN "VARCHAR2"
    ELSE IF operator \in {"_gt", "_gte", "_lt", "_lte", "_between", "_nbetween"}
    THEN "NUMBER"
    ELSE ""

\* Re-attach the separator to every piece but the last.
AddBack(pieces, sep) ==
    [i \in 1..Len(pieces) |-> IF i < Len(pieces) THEN pieces[i] \o sep ELSE pieces[i]]

SplitQuery(jsonPath) ==
    LET parts == AddBack(Split(jsonPath, ArrayWildcard), ArrayWildcard)
        flat == Flatten([i \in 1..Len(parts) |->
                            AddBack(Split(parts[i], ObjectWildcard), ObjectWildcard)])
    IN [i \in 1..Len(flat) |->
            IF StartsWith(flat[i], RootMarker) THEN flat[i] ELSE RootMarker \o flat[i]]

\* Object.entries(node.query.filter), empty when the node has no filter
FilterEntries(node) == IF node.query.filter = <<>> THEN <<>> ELSE node.query.filter[1]

\* One condition per entry of the nested filter: getOperation's operator and
\* value for the entry, and a generated alias for its filter column.
Conditions(entries, counter) ==
    [j \in 1..Len(entries) |->
        [jsonPath |-> entries[j].path, operator |-> entries[j].operator,
         value |-> entries[j].value, alias |-> GenerateCapitalAlias(counter + j - 1)]]

FilterColumns(conditions) ==
    [j \in 1..Len(conditions) |->
        [alias |-> conditions[j].alias, type |-> GetFilterType(conditions[j].operator),
         path |-> conditions[j].jsonPath]]

\* Variant: the found and the raw-form column share one generated alias.
FieldPairOneAlias(counter) ==
    <<GenerateCapitalAlias(counter), GenerateCapitalAlias(counter)>>

\* const fieldPair = [generateCapitalAlias(), generateCapitalAlias()]
FieldPair(counter) ==
    <<GenerateCapitalAlias(counter), GenerateCapitalAlias(counter + 1)>>

\* The json_table(...) expression and what buildJsonTable returns with it.
JsonTable(node, parts, tableAlias, fieldAlias, conditions, fieldPair, counter) ==
    [table |-> [column |-> node.name, rootPath |-> parts[1],
                nested |-> IF Len(parts) > 2 THEN SubSeq(parts, 2, Len(parts) - 1) ELSE <<>>,
                fieldPath |-> IF Len(parts) > 2 THEN <<parts[Len(parts)]>>
                              ELSE IF Len(parts) >= 2 THEN <<parts[2]>> ELSE <<>>,
                columns |-> fieldPair,
                filterColumns |-> FilterColumns(conditions), alias |-> tableAlias],
     alias |-> fieldAlias,
     field |-> [aggregate |-> <<tableAlias, fieldPair[1]>>,
                whenEmpty |-> <<tableAlias, fieldPair[2]>>, as |-> fieldAlias],
     conditions |-> conditions,
     counter |-> counter]

\* Aliases are drawn in the order of the calls: table, field, one per filter
\* entry, then the pair for the found and the raw-form column.
BuildJsonTable(table, node, parts, counter) ==
    JsonTable(node, parts,
              GenerateCapitalAlias(counter),
              GenerateCapitalAlias(counter + 1),
              Conditions(FilterEntries(node), counter + 2),
              FieldPair(counter + 2 + Len(FilterEntries(node))),
              counter + 4 + Len(FilterEntries(node)))

\* Variant: the empty-array coalescing is applied to every join-required node.
SelectJsonFieldAlwaysCoalesced(node, alias, jsonAlias) ==
    [kind |-> "coalesce_empty_array", from |-> alias, column |-> jsonAlias,
     as |-> node.fieldKey]

\* node.query?.filter ? COALESCE(alias.jsonAlias, '[]') as fieldKey
\*                    : alias.jsonAlias as fieldKey
SelectJsonField(node, alias, jsonAlias) ==
    [kind |-> IF node.query.filter # <<>> THEN "coalesce_empty_array" ELSE "column",
     from |-> alias, column |-> jsonAlias, as |-> node.fieldKey]

\* dbQuery.with(alias, subQuery).select(selectJsonField)
WithJson(dbQuery, node, table, alias, built) ==
    [dbQuery |->
        [dbQuery EXCEPT
            !.with = Append(@,
                [alias |-> alias,
                 subQuery |-> [select |-> <<"pk", built.field>>,
                               from |-> <<table, built.table>>,
                               where |-> [j \in 1..Len(built.conditions) |->
                                             [alias |-> built.conditions[j].alias,
                                              operator |-> built.conditions[j].operator,
                                              value |-> built.conditions[j].value]],
                               groupBy |-> <<table, "pk">>]]),
            !.select = Append(@, SelectJsonField(node, alias, built.alias))],
     counter |-> built.counter]

BuildWithJson(dbQuery, node, table, alias, counter) ==
    WithJson(dbQuery, node, table, alias,
             BuildJsonTable(table, node, SplitQuery(node.jsonPath), counter))

\* dbQuery.leftJoin(alias, `${table}.pk`, `${alias}.pk`)
LeftJoin(built, table, alias) ==
    [built EXCEPT !.dbQuery.leftJoin = Append(@, [table |-> alias, on |-> <<table, alias>>])]

\* for (const node of joinQueries) { alias; buildWithJson; leftJoin }
RECURSIVE JoinAll(_, _, _)
JoinAll(joinQueries, table, built) ==
    IF joinQueries = <<>> THEN built
    ELSE JoinAll(Tail(joinQueries), table,
                 LeftJoin(BuildWithJson(built.dbQuery, Head(joinQueries), table,
                                        GenerateCapitalAlias(built.counter),
                                        built.counter + 1),
                          table, GenerateCapitalAlias(built.counter)))

\* COALESCE(json_query(table.name, path), json_value(table.name, path)) as fieldKey
DirectExtraction(table, node) ==
    [kind |-> "direct", from |-> table, column |-> node.name, path |-> node.jsonPath,
     as |-> node.fieldKey]

\* if (selectQueries.length > 0) dbQuery.select(this.nodes.map(...))
SelectAll(nodes, table, joined) ==
    IF Len(SelectQueries(nodes)) > 0
    THEN [joined EXCEPT !.dbQuery.select =
             @ \o [n \in 1..Len(nodes) |-> DirectExtraction(table, nodes[n])]]
    ELSE joined

PreProcessQuery(nodes, dbQuery, table, counter) ==
    SelectAll(nodes, table,
              JoinAll(JoinQueries(nodes), table, [dbQuery |-> dbQuery, counter |-> counter]))

\* Sample JSON paths and nested queries of the nodes.
JsonPaths ==
    { <<"$", ".", "a">>,
      <<"$", ".", "a", "[", "*", "]", ".", "b">>,
      <<"$", ".", "a", ".", "*">>,
      <<"$", ".", "a", "[", "*", "]", ".", "b", "[", "*", "]", ".", "c">>,
      <<"[", "*", "]", ".", "b">> }

FilterEntry(path, operator, value) == [path |-> path, operator |-> operator, value |-> value]

NodeQueries ==
    { [filter |-> <<>>, limit |-> <<>>],
      [filter |-> <<>>, limit |-> <<1>>],
      [filter |-> << <<FilterEntry(<<"$", ".", "b">>, "_gt", 1)>> >>, limit |-> <<>>],
      [filter |-> << <<FilterEntry(<<"$", ".", "b">>, "_gt", 1),
                       FilterEntry(<<"$", ".", "c">>, "_eq", 1)>> >>, limit |-> <<>>] }

JsonNodes == [jsonPath : JsonPaths, query : NodeQueries]

\* this.nodes: each node of the JSON column "data" under its own output alias
HelperNodes(chosen) ==
    [n \in 1..Len(chosen) |->
        [name |-> "data", fieldKey |-> n, jsonPath |-> chosen[n].jsonPath,
         query |-> chosen[n].query]]

\* The helper after preProcess: the statement built and the counter advanced.
Compiled(nodes, out) ==
    [pc |-> "compiled", nodes |-> nodes, counter |-> out.counter, dbQuery |-> out.dbQuery,
     matched |-> <<>>, row |-> <<>>]

PreProcess ==
    /\ comp.pc = "ready"
    /\ comp' = Compiled(comp.nodes,
                        PreProcessQuery(comp.nodes, comp.dbQuery, "articles", comp.counter))
    /\ UNCHANGED <<primaryKeyField, rows, related, activity, trx, call, pc, trace, result,
                   before, inserted, read, upsert>>

\* ------------------------------------------------------------------------
\* The database evaluating the compiled statement for one row of the main
\* query
\* ------------------------------------------------------------------------
\* A derived table groups by the primary key the rows its json_table yields
\* and its conditions keep: it holds a row for the main row's key only when
\* some element of the document matches. The left join yields NULL otherwise.
JoinedColumn(entry, withs, matched) ==
    IF \E n \in 1..Len(withs) : withs[n].alias = entry.from /\ matched[n]
    THEN "array" ELSE "null"

\* The value of one expression of the main select list. present: the document
\* holds a value at the paths extracted directly.
Evaluate(entry, withs, matched, present) ==
    IF entry.kind = "direct" THEN (IF present THEN "value" ELSE "null")
    ELSE IF entry.kind = "coalesce_empty_array" /\ JoinedColumn(entry, withs, matched) = "null"
    THEN "[]"
    ELSE JoinedColumn(entry, withs, matched)

ResultRow(dbQuery, matched, present) ==
    [e \in 1..Len(dbQuery.select) |->
        [as |-> dbQuery.select[e].as,
         value |-> Evaluate(dbQuery.select[e], dbQuery.with, matched, present)]]

RunQuery ==
    /\ comp.pc = "compiled"
    /\ \E matched \in [1..Len(comp.dbQuery.with) -> BOOLEAN], present \in BOOLEAN :
          comp' = [comp EXCEPT !.pc = "ran", !.matched = matched,
                               !.row = ResultRow(comp.dbQuery, matched, present)]
    /\ UNCHANGED <<primaryKeyField, rows, related, activity, trx, call, pc, trace, result,
                   before, inserted, read, upsert>>

\* ------------------------------------------------------------------------
\* Specification of the JSON helper: one statement compiled for any nodes,
\* with the alias counter where earlier compilations left it
\* ------------------------------------------------------------------------
JsonInit ==
    /\ primaryKeyField = "id"
    /\ rows = EmptyRows
    /\ related = {}
    /\ activity = <<>>
    /\ trx = ClosedTrx
    /\ call = NoCall
    /\ pc = "idle"
    /\ trace = <<>>
    /\ result = NoResult
    /\ before = Committed
    /\ inserted = [k \in Keys |-> 0]
    /\ read = NoRead
    /\ \E chosen \in SeqsUpTo(JsonNodes, MaxNodes), c \in {0, MaxCounter} :
          comp = [pc |-> "ready", nodes |-> HelperNodes(chosen), counter |-> c,
                  dbQuery |-> EmptyQuery, matched |-> <<>>, row |-> <<>>]
    /\ upsert = NoUpserts

JsonNext == PreProcess \/ RunQuery

JsonSpec == JsonInit /\ [][JsonNext]_vars

\* ------------------------------------------------------------------------
\* Concurrent upsertSingleton calls. Each await is a suspension point: the
\* probe is one step, the update or create it delegates to (a transaction of
\* its own) is another, and steps of different callers interleave.
\* ------------------------------------------------------------------------
\* this.knex.select(primaryKeyField).from(this.collection).limit(1).first()
FirstRecord(rs) ==
    IF ExistingKeys(rs) = {} THEN <<>>
    ELSE <<CHOOSE k \in ExistingKeys(rs) : \A j \in ExistingKeys(rs) : k <= j>>

UpsertProbe(c) ==
    /\ upsert[c].pc = "idle"
    /\ \E t \in Titles :
          upsert' = [upsert EXCEPT ![c] = [pc |-> "probed", title |-> t,
                                          record |-> FirstRecord(rows)]]
    /\ UNCHANGED <<primaryKeyField, rows, related, activity, trx, call, pc, trace, result,
                   before, inserted, read, comp>>

\* if (record) return await this.update(data, record.id);
\* return await this.create(data);
\* The delegate's transaction commits its write, or fails and writes nothing.
UpsertWrite(rs, pkField, title, record) ==
    IF record # <<>>
    THEN IF Truthy(RecordId(pkField, record[1]))
         THEN UpdateRows(rs, Payload(<<>>, title), AsArray(RecordId(pkField, record[1])))
         ELSE rs
    ELSE InsertRows(rs, <<Payload(<<>>, title)>>, FreshKeys(ExistingKeys(rs), 1))

UpsertDelegate(c) ==
    /\ upsert[c].pc = "probed"
    /\ upsert' = [upsert EXCEPT ![c].pc = "done"]
    /\ \/ rows' = UpsertWrite(rows, primaryKeyField, upsert[c].title, upsert[c].record)
       \/ rows' = rows
    /\ UNCHANGED <<primaryKeyField, related, activity, trx, call, pc, trace, result,
                   before, inserted, read, comp>>

UpsertInit ==
    /\ primaryKeyField \in PkFields
    /\ rows = EmptyRows
    /\ related = {}
    /\ activity = <<>>
    /\ trx = ClosedTrx
    /\ call = NoCall
    /\ pc = "idle"
    /\ trace = <<>>
    /\ result = NoResult
    /\ before = Committed
    /\ inserted = [k \in Keys |-> 0]
    /\ read = NoRead
    /\ comp = NoCompilation
    /\ upsert = NoUpserts

UpsertNext ==
    \/ \E c \in Callers : UpsertProbe(c)
    \/ \E c \in Callers : UpsertDelegate(c)

UpsertSpec == UpsertInit /\ [][UpsertNext]_vars

\* ------------------------------------------------------------------------
\* Properties of the item orchestrator
\* ------------------------------------------------------------------------
Done == pc = "done"
\* The call ended without a collaborator (gate, storage) failing.
NoCollaboratorFailed == result.error \notin {"Forbidden", "StorageError"}
Issued(e) == {p \in 1..Len(trace) : trace[p].ev = e}
Writes == Issued("stmt") \cup Issued("child")
IsBatchUpdate == call.op = "update" /\ call.via = "direct" /\ call.key = Undefined
CountRecords(log, action, k) ==
    Cardinality({n \in 1..Len(log) : log[n].action = action /\ log[n].item = k})
Appended == SubSeq(activity, Len(before.activity) + 1, Len(activity))

\* C1: a create, update or delete call made with a non-null Accountability
\* whose admin flag is not true executes its INSERT / UPDATE / DELETE
\* statement only after an Authorization Gate call for it has succeeded.
GateBeforeStatement ==
    (call.acc # NullAcc /\ call.acc.admin # "true") =>
        \A p \in Issued("stmt") :
            \E q \in 1..(p - 1) : trace[q].ev = "gate" /\ trace[q].item = trace[p].item

\* C2: a call made with a null Accountability or with admin = true makes no
\* Authorization Gate call at all.
NoGateWhenTrusted ==
    (call.acc = NullAcc \/ call.acc.admin = "true") =>
        Issued("gate") \cup Issued("reject") = {}

\* C3: when a create, update or delete call fails at any step, the rows, the
\* related rows and the activity log are exactly as they were before the call.
FailedCallPersistsNothing ==
    (Done /\ ~result.ok) => Committed = before

\* A batch update failed on its second element after the UPDATE and the child
\* writes of the first were issued.
FailedCallPersistsNothingWitness ==
    /\ Done
    /\ ~result.ok
    /\ IsBatchUpdate
    /\ call.i = 2
    /\ \E p \in Issued("stmt") : trace[p].item = 1
    /\ \E p \in Issued("child") : trace[p].item = 2

\* C4: create, update and delete return a single key for a single input (for
\* update and delete the key given) and, for an array of N inputs, the array
\* of the N keys in input order, whatever the PrimaryKey values are.
ReturnMatchesInput ==
    IF call.op = "create"
    THEN /\ result.value.isArray = call.data.isArray
         /\ Len(result.value.items) = Len(call.data.items)
         /\ \A n \in 1..Len(call.data.items) :
                rows[result.value.items[n]] = call.data.items[n].title
    ELSE IF IsBatchUpdate
    THEN result.value = KeyArray([n \in 1..Len(call.data.items) |-> call.data.items[n].pk[1]])
    ELSE result.value = call.key

ShapePreserved ==
    ( /\ Done
      /\ call.via = "direct"
      /\ NoCollaboratorFailed
      /\ IsBatchUpdate => \A n \in 1..Len(call.data.items) : call.data.items[n].pk # <<>> )
    => (result.ok /\ ReturnMatchesInput)

\* C5: the committed activity log holds exactly one CREATE record per key
\* inserted by a committed create made with non-null Accountability; records
\* commit together with the mutation they document (a failed call leaves
\* none, a committed mutation by a non-null Accountability has its records);
\* a call with null Accountability appends none; no record is ever modified
\* or removed.
LogMatchesMutations ==
    /\ \A k \in Keys : CountRecords(activity, "create", k) = inserted[k]
    /\ call.acc = NullAcc => activity = before.activity
    /\ ~(Done /\ result.ok) => Committed = before
    /\ (Done /\ result.ok /\ call.acc # NullAcc) =>
          \A k \in Keys :
              /\ (rows[k] # NoRow /\ before.rows[k] = NoRow)
                    => CountRecords(Appended, "create", k) = 1
              /\ (rows[k] = NoRow /\ before.rows[k] # NoRow)
                    => CountRecords(Appended, "delete", k) >= 1

LogAppendOnly ==
    /\ Len(activity') >= Len(activity)
    /\ SubSeq(activity', 1, Len(activity)) = activity

ActivityLogFaithful == []LogMatchesMutations /\ [][LogAppendOnly]_vars

\* A create of two items by a non-admin committed with its two records, after
\* the record that was already in the log.
ActivityLogFaithfulWitness ==
    /\ Done
    /\ result.ok
    /\ call.op = "create"
    /\ call.acc # NullAcc
    /\ Len(call.keys) = 2
    /\ Len(activity) = Len(before.activity) + 2
    /\ before.activity # <<>>

\* C6 (as stated): when a batch update raises InvalidPayload for an element
\* without primary-key value, no UPDATE statement and no child write has been
\* issued for any element of the batch.
HasDefective == \E n \in 1..Len(call.data.items) : call.data.items[n].pk = <<>>
FirstDefective ==
    CHOOSE d \in 1..Len(call.data.items) :
        /\ call.data.items[d].pk = <<>>
        /\ \A e \in 1..(d - 1) : call.data.items[e].pk # <<>>

InvalidPayloadBeforeAnyWrite ==
    (Done /\ IsBatchUpdate /\ HasDefective /\ result.error = "InvalidPayload") => Writes = {}

\* C6 (amended): a batch update with an element that carries no primary-key
\* value fails (with InvalidPayload unless the update of an earlier element
\* failed first) and persists nothing; UPDATE statements and child writes are
\* issued, inside the batch's transaction, only for elements that precede the
\* defective one, and they are rolled back.
InvalidPayloadRollsBack ==
    (Done /\ IsBatchUpdate /\ HasDefective) =>
        /\ ~result.ok
        /\ result.error \in {"InvalidPayload", "Forbidden", "StorageError"}
        /\ result.error # "InvalidPayload" => call.i < FirstDefective
        /\ Committed = before
        /\ \A p \in Writes : trace[p].item < FirstDefective

\* InvalidPayload was raised at the second element after the first element's
\* UPDATE statement and child writes were issued.
InvalidPayloadRollsBackWitness ==
    /\ Done
    /\ IsBatchUpdate
    /\ HasDefective
    /\ result.error = "InvalidPayload"
    /\ FirstDefective = 2
    /\ \E p \in Issued("stmt") : trace[p].item = 1
    /\ \E p \in Issued("child") : trace[p].item = 1

\* C7: upsertSingleton on a collection that holds a row updates that row
\* (the row carries the payload afterwards, the row count is unchanged); on
\* an empty collection it creates the one row; whatever the primary-key field
\* is called.
UpsertUpdatesOrCreates ==
    (Done /\ call.via = "upsert" /\ NoCollaboratorFailed) =>
        /\ result.ok
        /\ IF ExistingKeys(before.rows) # {}
           THEN /\ call.op = "update"
                /\ rows[call.record[1]] = call.data.items[1].title
                /\ ExistingKeys(rows) = ExistingKeys(before.rows)
           ELSE /\ call.op = "create"
                /\ Cardinality(ExistingKeys(rows)) = 1

\* C8: readByKey with a single key returns the Item having that key when it
\* is readable and undefined, never an error, when no row matches; with an
\* array of keys it returns an array holding only Items whose primary key was
\* requested, also when fewer rows than keys are found.
Readable(acc, item) == acc = NullAcc \/ acc.admin = "true" \/ Permitted(item)
Matches(k) ==
    /\ rows[k] # NoRow
    /\ Readable(read.acc, Item(primaryKeyField, k, rows[k]))
    /\ \A f \in DOMAIN read.query.filter \ {primaryKeyField} :
          Item(primaryKeyField, k, rows[k])[f][1] \in read.query.filter[f]

ReadByKeyShape ==
    read.op = "readByKey" =>
        IF read.key.isArray
        THEN /\ read.returned.kind = "array"
             /\ \A n \in 1..Len(read.returned.items) :
                    \E m \in 1..Len(read.key.items) :
                        read.returned.items[n][primaryKeyField] = <<read.key.items[m]>>
        ELSE IF Matches(read.key.items[1])
        THEN read.returned =
                [kind |-> "item",
                 items |-> <<Item(primaryKeyField, read.key.items[1], rows[read.key.items[1]])>>]
        ELSE read.returned = [kind |-> "undefined", items |-> <<>>]

\* A single key that matches no row, while another row is stored, returned
\* undefined.
ReadByKeyShapeWitness ==
    /\ read.op = "readByKey"
    /\ ~read.key.isArray
    /\ rows[read.key.items[1]] = NoRow
    /\ ExistingKeys(rows) # {}
    /\ read.returned.kind = "undefined"

\* C9: readSingleton never returns a not-found or undefined result: it
\* returns the first row the query (limit 1) yields or, when it yields none,
\* an Item with exactly one entry per column holding the column's declared
\* default value.
Visible ==
    {k \in Keys :
        /\ rows[k] # NoRow
        /\ Satisfies(Item(primaryKeyField, k, rows[k]), read.query.filter)
        /\ (read.acc # NullAcc /\ read.acc.admin = "false")
              => Permitted(Item(primaryKeyField, k, rows[k]))}

ReadSingletonNeverEmpty ==
    read.op = "readSingleton" =>
        /\ read.returned.kind = "item"
        /\ Len(read.returned.items) = 1
        /\ LET item == read.returned.items[1]
           IN IF Visible # {}
              THEN \E k \in Visible :
                      /\ \A j \in Visible : k <= j
                      /\ item = Item(primaryKeyField, k, rows[k])
              ELSE /\ DOMAIN item = {column.name : column \in ColumnInfo(primaryKeyField)}
                   /\ \A column \in ColumnInfo(primaryKeyField) :
                          item[column.name] = column.default

\* The query yielded no row of a collection that holds rows, and the defaults
\* were returned.
ReadSingletonNeverEmptyWitness ==
    /\ read.op = "readSingleton"
    /\ ExistingKeys(rows) # {}
    /\ Visible = {}
    /\ read.returned.items[1]["title"] = <<"untitled">>

\* ------------------------------------------------------------------------
\* Properties of the JSON helper
\* ------------------------------------------------------------------------
\* The identifiers generated for one derived table.
AliasesOf(w) ==
    <<w.alias, w.subQuery.from[2].alias, w.subQuery.select[2].as>>
        \o w.subQuery.from[2].columns
        \o [j \in 1..Len(w.subQuery.from[2].filterColumns) |->
                w.subQuery.from[2].filterColumns[j].alias]

GeneratedAliases ==
    Flatten([n \in 1..Len(comp.dbQuery.with) |-> AliasesOf(comp.dbQuery.with[n])])

\* C10: in one statement compiled by preProcess no two generated identifiers
\* (derived-table alias, json_table alias, aggregate column alias, found and
\* raw-form column aliases, filter-condition aliases) are equal.
AliasesUnique ==
    LET generated == GeneratedAliases
    IN \A i, j \in 1..Len(generated) : i # j => generated[i] # generated[j]

\* Two join-required nodes were compiled, one with a nested filter and one
\* with more than two path segments.
AliasesUniqueWitness ==
    /\ comp.pc # "ready"
    /\ Len(comp.dbQuery.with) = 2
    /\ \E n \in 1..2 : comp.dbQuery.with[n].subQuery.from[2].filterColumns # <<>>
    /\ \E n \in 1..2 : comp.dbQuery.with[n].subQuery.from[2].nested # <<>>


\* The expressions of the main select list that read a derived table, and for
\* each the derived table it reads.
FromDerivedTable == {e \in 1..Len(comp.dbQuery.select) : comp.dbQuery.select[e].kind # "direct"}
DerivedTableOf(e) ==
    CHOOSE n \in 1..Len(comp.dbQuery.with) :
        comp.dbQuery.with[n].alias = comp.dbQuery.select[e].from

UpdateGateInsideTransaction ==
    (call.op = "update" /\ call.i = 0 /\ UpdateGuard(call.acc) /\ pc = "update_gate")
        => trx.open

\* C13: every storage access a nested instance makes on behalf of a batch
\* update goes through the batch's transaction handle: the access check of
\* the per-item update reads the uncommitted view of the batch's transaction,
\* which holds the writes of the earlier items.
NestedGateReadsTransaction ==
    (call.op = "update" /\ call.i > 0 /\ UpdateGuard(call.acc) /\ pc = "update_stmt")
        => call.seen = trx.rows

\* ------------------------------------------------------------------------
\* Properties of the read operations: filters and authorization
\* ------------------------------------------------------------------------
\* C14: readByKey returns exactly the readable Items whose key was requested
\* and which satisfy the caller's filter, also when that filter places a
\* condition on the primary-key field: no returned Item is excluded by the
\* caller's filter.
ReadByKeyAndsCallerFilter ==
    read.op = "readByKey" =>
        /\ \A n \in 1..Len(read.returned.items) :
               Satisfies(read.returned.items[n], read.query.filter)
        /\ read.key.isArray =>
               ToSet(read.returned.items) =
                   {Item(primaryKeyField, k, rows[k]) :
                       k \in {j \in ToSet(read.key.items) :
                                /\ rows[j] # NoRow
                                /\ Readable(read.acc, Item(primaryKeyField, j, rows[j]))
                                /\ Satisfies(Item(primaryKeyField, j, rows[j]),
                                             read.query.filter)}}

\* ------------------------------------------------------------------------
\* Properties of the item orchestrator: the records of a delete
\* ------------------------------------------------------------------------
\* C15: a committed delete with non-null Accountability appends one DELETE
\* record per key it removed a row of and none for any other key: requested
\* keys that matched no row and duplicate requested keys add no record, and
\* the number of records appended is the number of rows deleted.
DeleteLogsAffectedKeysOnly ==
    (Done /\ result.ok /\ call.op = "delete" /\ call.acc # NullAcc) =>
        /\ \A k \in Keys :
               CountRecords(Appended, "delete", k) =
                   IF before.rows[k] # NoRow /\ rows[k] = NoRow THEN 1 ELSE 0
        /\ Len(Appended) = Cardinality(ExistingKeys(before.rows) \ ExistingKeys(rows))

\* ------------------------------------------------------------------------
\* Properties of the JSON helper: classification and the select list
\* ------------------------------------------------------------------------
\* A path holds a wildcard at any position, the start included.
HasWildcard(jsonPath) ==
    IndexOf(jsonPath, ArrayWildcard) # -1 \/ IndexOf(jsonPath, ObjectWildcard) # -1
JoinRequired(node) == HasWildcard(node.jsonPath) \/ ObjectKeysLength(node.query) > 0

\* C16: preProcess puts every node into exactly one of its two classes; a
\* node is join-required exactly when its path holds a wildcard at any
\* position or it carries a non-empty nested query; every join-required node
\* has exactly one derived table, joined to the main query on the primary key.
ClassifiedExactlyOnce ==
    comp.pc # "ready" =>
        \A n \in 1..Len(comp.nodes) :
            LET node == comp.nodes[n]
                tables == {e \in FromDerivedTable : comp.dbQuery.select[e].as = node.fieldKey}
            IN /\ IsSelectQuery(node) # IsJoinQuery(node)
               /\ IsJoinQuery(node) <=> JoinRequired(node)
               /\ JoinRequired(node) =>
                     /\ Cardinality(tables) = 1
                     /\ \A e \in tables :
                            \E j \in 1..Len(comp.dbQuery.leftJoin) :
                                comp.dbQuery.leftJoin[j].table = comp.dbQuery.select[e].from

\* C17: for any mix of select-only and join-required nodes compiled by one
\* preProcess call, the main select list holds exactly one expression per
\* node under the node's output alias: the direct extraction for a
\* select-only node, the derived table's aggregated column for a
\* join-required node.
OneSelectPerNode ==
    ( /\ comp.pc # "ready"
      /\ \A n \in 1..Len(comp.nodes) :
             IsSelectQuery(comp.nodes[n]) \/ IsJoinQuery(comp.nodes[n]) )
    => \A n \in 1..Len(comp.nodes) :
           LET node == comp.nodes[n]
               selected == {e \in 1..Len(comp.dbQuery.select) :
                               comp.dbQuery.select[e].as = node.fieldKey}
           IN /\ Cardinality(selected) = 1
              /\ \A e \in selected :
                     (comp.dbQuery.select[e].kind = "direct") <=> IsSelectQuery(node)

\* C18: for every join-required node, also one without wildcard that carries
\* a nested filter, splitQuery yields at least two segments, each beginning
\* with the root marker, so the root path and the innermost field path of the
\* node's json_table expression are both defined.
SegmentsDefined ==
    comp.pc # "ready" =>
        /\ \A n \in 1..Len(comp.nodes) :
               IsJoinQuery(comp.nodes[n]) =>
                   LET parts == SplitQuery(comp.nodes[n].jsonPath)
                   IN /\ Len(parts) >= 2
                      /\ \A p \in 1..Len(parts) : StartsWith(parts[p], RootMarker)
        /\ \A w \in 1..Len(comp.dbQuery.with) :
               LET jsonTable == comp.dbQuery.with[w].subQuery.from[2]
               IN /\ StartsWith(jsonTable.rootPath, RootMarker)
                  /\ jsonTable.fieldPath # <<>>

\* ------------------------------------------------------------------------
\* Properties of the read operations: one authorization pipeline
\* ------------------------------------------------------------------------
\* C19: for every Accountability and the same stored rows, readByKey rewrites
\* its AST through the Authorization Gate exactly when readByQuery does, so an
\* Item readByQuery returns to a caller is returned to the same caller by
\* readByKey for its key, and an Item readByKey returns is returned by
\* readByQuery for the same filter.
SameAuthorizationPipeline ==
    /\ read.op = "readByQuery" =>
          /\ read.gate = ReadByKeyGate(read.acc)
          /\ \A n \in 1..Len(read.returned.items) :
                 ReadByKeyRecords(SingleKey(read.returned.items[n][primaryKeyField][1]),
                                  [read.query EXCEPT !.limit = NoLimit], "read", read.acc,
                                  primaryKeyField, rows) = <<read.returned.items[n]>>
    /\ read.op = "readByKey" =>
          /\ read.gate = ReadByQueryGate(read.acc)
          /\ ToSet(read.returned.items) \subseteq
                 ToSet(ReadByQueryRecords(
                     QueryWithFilter(read.query, primaryKeyField, AsArray(read.key)),
                     read.acc, primaryKeyField, rows))

\* ------------------------------------------------------------------------
\* Properties of concurrent upsertSingleton calls
\* ------------------------------------------------------------------------
\* C20: starting from an empty collection, after any number of
\* upsertSingleton calls whose steps interleave, the collection holds at most
\* one row.
SingletonHoldsAtMostOneRow == Cardinality(ExistingKeys(rows)) <= 1

====
